---- MODULE Spec2Model ----
(***************************************************************************)
(* Project record lifecycle of backend/app/routers/projects.py: the five   *)
(* request handlers (create_project, get_projects, get_project_details,    *)
(* update_project_status, upload_project_image) running as concurrent      *)
(* coroutines over one document collection (db.projects) and one external  *)
(* object store.  Every await on the collection is one atomic store step;  *)
(* upload_project_image is the only handler with more than one await and   *)
(* is therefore the only one whose steps interleave with other requests.   *)
(***************************************************************************)
EXTENDS Integers, Sequences, FiniteSets, TLC

\* Number of requests the checked runs start.
MaxOps == 3
\* Size of the ObjectId space the store may draw identifiers from.
MaxOid == 3
\* to_list(100) in get_projects.
ListLimit == 100

(***************************************************************************)
(* Values                                                                  *)
(***************************************************************************)

\* Optional[str]: None, or a one-element tuple holding the value.
None == <<>>
Some(x) == <<x>>

\* Python truthiness of an Optional[str] (`if village_name:`): None and the
\* empty string are both false.
Truthy(opt) == opt # None /\ opt[1] # ""

Oids == 1 .. MaxOid

\* An identifier string as a client sends it.  hex is the 12-byte value its 24
\* hex digits denote (0: the string is not 24 hex digits), upper says whether
\* the digits a-f are written in upper case.
NotHex == [hex |-> 0, upper |-> FALSE]
IdStrings == {[hex |-> o, upper |-> FALSE] : o \in Oids}
               \cup {[hex |-> 1, upper |-> TRUE], NotHex}

\* bson.ObjectId(project_id): parses either case; anything else raises.
ObjectId(s) == IF s.hex \in Oids THEN Some(s.hex) ELSE None

\* str(oid): always the lower-case hex form.
StrOid(o) == [hex |-> o, upper |-> FALSE]

DefaultStatus == "Proposed"
DefaultMilestones == <<"Project Initiated">>
DefaultDescription == "Progress Update"

\* Request bodies of POST /projects/ (ProjectCreate before defaults apply).
Payloads ==
  { [project_name |-> "Road A", village_name |-> "v1", contractor_id |-> "c1",
     status |-> None, milestones |-> None],
    [project_name |-> "Road B", village_name |-> "v2", contractor_id |-> "c2",
     status |-> Some("In Progress"), milestones |-> Some(<<>>)] }

\* Query/form inputs the requests are drawn from.
ListInputs ==
  { [village_name |-> None, contractor_id |-> None],
    [village_name |-> None, contractor_id |-> Some("")],
    [village_name |-> None, contractor_id |-> Some("c1")],
    [village_name |-> Some("v1"), contractor_id |-> Some("c2")] }
ContractorInputs == {"c1", "c2"}
StatusInputs == {"Completed"}
MilestoneInputs == {None, Some(""), Some("Survey done")}
Urls == {"https://bucket/projects/a.jpg"}

\* ProjectCreate.status default.
ProjectCreateStatusBad(payload) == "Pending"
ProjectCreateStatus(payload) ==
  IF payload.status = None THEN DefaultStatus ELSE payload.status[1]

\* project.dict(): the validated body with the schema defaults filled in.
ProjectDict(payload) ==
  [project_name  |-> payload.project_name,
   village_name  |-> payload.village_name,
   contractor_id |-> payload.contractor_id,
   status        |-> ProjectCreateStatus(payload),
   milestones    |-> IF payload.milestones = None THEN DefaultMilestones
                     ELSE payload.milestones[1]]

\* new_project: the dict plus created_at and an empty images list.
NewProject(payload, t) ==
  [project_name  |-> ProjectDict(payload).project_name,
   village_name  |-> ProjectDict(payload).village_name,
   contractor_id |-> ProjectDict(payload).contractor_id,
   status        |-> ProjectDict(payload).status,
   milestones    |-> ProjectDict(payload).milestones,
   created_at    |-> t,
   images        |-> <<>>]

\* p["id"] = str(p["_id"]); del p["_id"]: the document as a response shows it.
Expose(o, doc) ==
  [id            |-> StrOid(o),
   project_name  |-> doc.project_name,
   village_name  |-> doc.village_name,
   contractor_id |-> doc.contractor_id,
   status        |-> doc.status,
   milestones    |-> doc.milestones,
   created_at    |-> doc.created_at,
   images        |-> doc.images]

(***************************************************************************)
(* The document store (db.projects)                                        *)
(***************************************************************************)

\* An update document is [set_status, push_milestone, push_image], each part
\* optional: {"$set": {"status": s}}, {"$push": {"milestones": m}},
\* {"$push": {"images": r}}.

\* One document after an update document is applied to it.
ApplyUpdateOverwrite(doc, upd) ==
  [doc EXCEPT
     !.status     = IF upd.set_status = None THEN @ ELSE upd.set_status[1],
     !.milestones = IF upd.push_milestone = None THEN @
                    ELSE <<upd.push_milestone[1]>>,
     !.images     = IF upd.push_image = None THEN @ ELSE <<upd.push_image[1]>>]
ApplyUpdatePrepend(doc, upd) ==
  [doc EXCEPT
     !.status     = IF upd.set_status = None THEN @ ELSE upd.set_status[1],
     !.milestones = IF upd.push_milestone = None THEN @
                    ELSE <<upd.push_milestone[1]>> \o @,
     !.images     = IF upd.push_image = None THEN @
                    ELSE <<upd.push_image[1]>> \o @]
ApplyUpdate(doc, upd) ==
  [doc EXCEPT
     !.status     = IF upd.set_status = None THEN @ ELSE upd.set_status[1],
     !.milestones = IF upd.push_milestone = None THEN @
                    ELSE Append(@, upd.push_milestone[1]),
     !.images     = IF upd.push_image = None THEN @
                    ELSE Append(@, upd.push_image[1])]

\* update_one({"_id": oid}, upd): the collection afterwards and matched_count.
\* No upsert: an identifier that matches nothing changes nothing.
UpdateOneUpsert(st, oid, upd) ==
  IF oid \in DOMAIN st
  THEN [store |-> [st EXCEPT ![oid] = ApplyUpdate(@, upd)], matched_count |-> 1]
  ELSE [store |-> [o \in DOMAIN st \cup {oid} |->
                     IF o = oid
                     THEN ApplyUpdate(NewProject(CHOOSE p \in Payloads : TRUE, 0), upd)
                     ELSE st[o]],
        matched_count |-> 1]
UpdateOne(st, oid, upd) ==
  IF oid \in DOMAIN st
  THEN [store |-> [st EXCEPT ![oid] = ApplyUpdate(@, upd)], matched_count |-> 1]
  ELSE [store |-> st, matched_count |-> 0]

\* find_one({"_id": oid}).
FindOne(st, oid) == IF oid \in DOMAIN st THEN Some(st[oid]) ELSE None

\* The filter document get_projects builds.
BuildQueryNoContractor(village_name, contractor_id) ==
  [village_name  |-> IF Truthy(village_name) THEN village_name ELSE None,
   contractor_id |-> None]
BuildQuery(village_name, contractor_id) ==
  [village_name  |-> IF Truthy(village_name) THEN village_name ELSE None,
   contractor_id |-> IF Truthy(contractor_id) THEN contractor_id ELSE None]

\* Equality match of one document against the filter document.
Matches(doc, query) ==
  /\ query.village_name # None => doc.village_name = query.village_name[1]
  /\ query.contractor_id # None => doc.contractor_id = query.contractor_id[1]

Matching(st, query) == {o \in DOMAIN st : Matches(st[o], query)}

Min(a, b) == IF a <= b THEN a ELSE b

\* find(query).sort("created_at", -1).to_list(100): every order of the
\* matching documents that is descending in created_at (ties in any order),
\* cut to the first 100.
FindSorted(st, query) ==
  LET S == Matching(st, query)
      n == Cardinality(S)
      orders == {q \in [1 .. n -> S] :
                   /\ \A i, j \in 1 .. n : i # j => q[i] # q[j]
                   /\ \A i, j \in 1 .. n :
                        i < j => st[q[i]].created_at >= st[q[j]].created_at}
  IN {SubSeq(q, 1, Min(n, ListLimit)) : q \in orders}

(***************************************************************************)
(* upload_project_image: its helpers                                       *)
(***************************************************************************)

\* `project.get("contractor_id") != contractor_id` does not hold.
AuthorizedAlways(project, contractor_id) == TRUE
AuthorizedInverted(project, contractor_id) == project.contractor_id # contractor_id
Authorized(project, contractor_id) == project.contractor_id = contractor_id

\* What `await upload_file_to_s3(file, "projects")` can come back with: the
\* public URL of the stored object, or an exception.
UploadResults ==
  {[raised |-> TRUE, url |-> ""]} \cup {[raised |-> FALSE, url |-> u] : u \in Urls}

\* image_record.
ImageRecord(url, description, t, contractor_id) ==
  [url |-> url, description |-> description, uploaded_at |-> t,
   uploaded_by |-> contractor_id]

\* The coroutine after the upload's await: an exception ends it (nothing in
\* the handler catches it), a URL takes it to the record and the update.
Pushing(c, url, t) ==
  [pc |-> "pushing", project_id |-> c.project_id, oid |-> c.oid,
   contractor_id |-> c.contractor_id, description |-> c.description,
   project |-> c.project, image_url |-> url,
   image_record |-> ImageRecord(url, c.description, t, c.contractor_id)]
AfterUploadSwallow(c, result, t) ==
  Pushing(c, IF result.raised THEN "upload failed" ELSE result.url, t)
AfterUpload(c, result, t) ==
  IF result.raised THEN [c EXCEPT !.pc = "raised"] ELSE Pushing(c, result.url, t)

\* {"$push": {"images": image_record}}.
PushImageQuery(image_record) ==
  [set_status |-> None, push_milestone |-> None, push_image |-> Some(image_record)]

\* The collection after the handler's final update_one.
ImagePushWriteBack(st, c) ==
  IF c.oid \in DOMAIN st
  THEN [st EXCEPT ![c.oid] = ApplyUpdate(c.project, PushImageQuery(c.image_record))]
  ELSE st
ImagePush(st, c) == UpdateOne(st, c.oid, PushImageQuery(c.image_record)).store

\* update_query of update_project_status.
StatusUpdateQueryNoPush(status, new_milestone) ==
  [set_status |-> Some(status), push_milestone |-> None, push_image |-> None]
StatusUpdateQuery(status, new_milestone) ==
  [set_status     |-> Some(status),
   push_milestone |-> IF Truthy(new_milestone) THEN new_milestone ELSE None,
   push_image     |-> None]

(***************************************************************************)
(* State                                                                   *)
(***************************************************************************)

VARIABLES
  store,     \* db.projects: ObjectId -> document
  s3,        \* the objects put into the external object store, in order
  now,       \* the clock datetime.now(IST) reads
  ops,       \* requests started so far
  ctx,       \* the upload_project_image coroutines in flight, by slot
  last,      \* the request that returned most recently, with its response
  returned   \* whether the latest step returned a response to a caller

vars == <<store, s3, now, ops, ctx, last, returned>>

Slots == 1 .. MaxOps
Idle == [pc |-> "idle"]

\* Collections as they stand when the process starts serving: projects
\* created earlier and not touched since.
SeedPayload(o) ==
  CHOOSE p \in Payloads : p.contractor_id = (IF o = 1 THEN "c1" ELSE "c2")
SeedStores == {[o \in 1 .. n |-> NewProject(SeedPayload(o), 0)] : n \in 0 .. 2}

Init ==
  /\ store \in SeedStores
  /\ s3 = <<>>
  /\ now = 1
  /\ ops = 0
  /\ ctx = [k \in Slots |-> Idle]
  /\ last = [op |-> "none"]
  /\ returned = FALSE

\* The slot a newly started coroutine takes.
FreeSlot(k) == ctx[k].pc = "idle" /\ \A j \in 1 .. k - 1 : ctx[j].pc # "idle"

(***************************************************************************)
(* The handlers                                                            *)
(***************************************************************************)

\* POST /projects/.  insert_one gives the document an _id no stored document
\* has: the least unused one here.
create_project(payload) ==
  /\ ops < MaxOps
  /\ \E oid \in Oids \ DOMAIN store :
       /\ \A o \in Oids \ DOMAIN store : oid <= o
       /\ store' = [o \in DOMAIN store \cup {oid} |->
                      IF o = oid THEN NewProject(payload, now) ELSE store[o]]
       /\ last' = [op |-> "create", payload |-> payload, code |-> 201,
                   project_id |-> StrOid(oid)]
  /\ now' = now + 1
  /\ ops' = ops + 1
  /\ returned' = TRUE
  /\ UNCHANGED <<s3, ctx>>

\* GET /projects/
get_projects(village_name, contractor_id) ==
  /\ ops < MaxOps
  /\ \E projects \in FindSorted(store, BuildQuery(village_name, contractor_id)) :
       last' = [op |-> "list", village_name |-> village_name,
                contractor_id |-> contractor_id, code |-> 200,
                body |-> [i \in 1 .. Len(projects) |->
                            Expose(projects[i], store[projects[i]])]]
  /\ ops' = ops + 1
  /\ returned' = TRUE
  /\ UNCHANGED <<store, s3, now, ctx>>

\* GET /projects/{project_id}
get_project_details(project_id) ==
  /\ ops < MaxOps
  /\ LET oid == ObjectId(project_id)
         project == IF oid = None THEN None ELSE FindOne(store, oid[1])
     IN last' = [op |-> "get", project_id |-> project_id,
                 code |-> IF oid = None THEN 400
                          ELSE IF project = None THEN 404 ELSE 200,
                 body |-> IF project = None THEN None
                          ELSE Some(Expose(oid[1], project[1]))]
  /\ ops' = ops + 1
  /\ returned' = TRUE
  /\ UNCHANGED <<store, s3, now, ctx>>

\* PATCH /projects/{project_id}/status
update_project_status(project_id, status, new_milestone) ==
  /\ ops < MaxOps
  /\ LET oid == ObjectId(project_id)
         result == UpdateOne(store, oid[1], StatusUpdateQuery(status, new_milestone))
     IN IF oid = None
        THEN /\ store' = store
             /\ last' = [op |-> "update", project_id |-> project_id,
                         status |-> status, new_milestone |-> new_milestone,
                         code |-> 400, before |-> None]
        ELSE /\ store' = result.store
             /\ last' = [op |-> "update", project_id |-> project_id,
                         status |-> status, new_milestone |-> new_milestone,
                         code |-> IF result.matched_count = 0 THEN 404 ELSE 200,
                         before |-> FindOne(store, oid[1])]
  /\ ops' = ops + 1
  /\ returned' = TRUE
  /\ UNCHANGED <<s3, now, ctx>>

\* What upload_project_image answers when it raises before the upload.
Rejected(project_id, contractor_id, code) ==
  [op |-> "attach", project_id |-> project_id, contractor_id |-> contractor_id,
   code |-> code, url |-> None, record |-> None, project |-> None,
   before |-> None]

\* POST /projects/{project_id}/upload-image, up to the upload's await: the
\* identifier is parsed, the project read and the contractor compared.
upload_project_image(k, project_id, contractor_id, description) ==
  /\ ops < MaxOps
  /\ FreeSlot(k)
  /\ LET oid == ObjectId(project_id)
         project == IF oid = None THEN None ELSE FindOne(store, oid[1])
     IN IF oid = None
        THEN /\ last' = Rejected(project_id, contractor_id, 400)
             /\ returned' = TRUE
             /\ ctx' = ctx
        ELSE IF project = None
        THEN /\ last' = Rejected(project_id, contractor_id, 404)
             /\ returned' = TRUE
             /\ ctx' = ctx
        ELSE IF ~Authorized(project[1], contractor_id)
        THEN /\ last' = Rejected(project_id, contractor_id, 403)
             /\ returned' = TRUE
             /\ ctx' = ctx
        ELSE /\ last' = last
             /\ returned' = FALSE
             /\ ctx' = [ctx EXCEPT ![k] =
                          [pc |-> "uploading", project_id |-> project_id,
                           oid |-> oid[1], contractor_id |-> contractor_id,
                           description |-> description, project |-> project[1]]]
  /\ ops' = ops + 1
  /\ UNCHANGED <<store, s3, now>>

\* The upload's await completes: with an exception the request ends in a
\* server error, with a URL the record is built (reading the clock).
upload_returns(k, result) ==
  /\ ctx[k].pc = "uploading"
  /\ s3' = IF result.raised THEN s3 ELSE Append(s3, result.url)
  /\ LET c == AfterUpload(ctx[k], result, now)
     IN IF c.pc = "raised"
        THEN /\ ctx' = [ctx EXCEPT ![k] = Idle]
             /\ last' = Rejected(c.project_id, c.contractor_id, 500)
             /\ returned' = TRUE
             /\ now' = now
        ELSE /\ ctx' = [ctx EXCEPT ![k] = c]
             /\ last' = last
             /\ returned' = FALSE
             /\ now' = now + 1
  /\ UNCHANGED <<store, ops>>

\* The final update_one of upload_project_image, and its response.
push_image(k) ==
  /\ ctx[k].pc = "pushing"
  /\ store' = ImagePush(store, ctx[k])
  /\ last' = [op |-> "attach", project_id |-> ctx[k].project_id,
              contractor_id |-> ctx[k].contractor_id, code |-> 200,
              url |-> Some(ctx[k].image_url),
              record |-> Some(ctx[k].image_record),
              project |-> Some(ctx[k].project),
              before |-> FindOne(store, ctx[k].oid)]
  /\ ctx' = [ctx EXCEPT ![k] = Idle]
  /\ returned' = TRUE
  /\ UNCHANGED <<s3, now, ops>>

Next ==
  \/ \E payload \in Payloads : create_project(payload)
  \/ \E q \in ListInputs : get_projects(q.village_name, q.contractor_id)
  \/ \E s \in IdStrings : get_project_details(s)
  \/ \E s \in IdStrings, st \in StatusInputs, m \in MilestoneInputs :
       update_project_status(s, st, m)
  \/ \E k \in Slots, s \in IdStrings, c \in ContractorInputs :
       upload_project_image(k, s, c, DefaultDescription)
  \/ \E k \in Slots, result \in UploadResults : upload_returns(k, result)
  \/ \E k \in Slots : push_image(k)

Spec == Init /\ [][Next]_vars

(***************************************************************************)
(* Properties                                                              *)
(***************************************************************************)

IsPrefix(s, t) == Len(s) <= Len(t) /\ SubSeq(t, 1, Len(s)) = s
Range(s) == {s[i] : i \in 1 .. Len(s)}

\* The project a returned request addressed, when its identifier parsed.
Target(r) == ObjectId(r.project_id)

\* C1: an upload-image request on an existing project whose contractor_id
\* differs from the one the caller asserts is answered 403, and the step that
\* answers it changes neither the collection (so not the project's images) nor
\* the object store, and leaves no coroutine behind.
C1_UnauthorizedAttach ==
  [][(/\ returned'
      /\ last'.op = "attach"
      /\ Target(last') # None
      /\ Target(last')[1] \in DOMAIN store
      /\ store[Target(last')[1]].contractor_id # last'.contractor_id)
     => (/\ last'.code = 403
         /\ store' = store
         /\ s3' = s3
         /\ ctx' = ctx)]_vars

\* A mismatching upload was refused on a project that already holds an image.
C1_Witness ==
  /\ returned
  /\ last.op = "attach"
  /\ last.code = 403
  /\ Target(last)[1] \in DOMAIN store
  /\ store[Target(last)[1]].contractor_id # last.contractor_id
  /\ store[Target(last)[1]].images # <<>>

\* C2: a status update whose identifier parses and matches no stored project
\* is answered 404, with or without a milestone, and leaves the whole
\* collection as it was.
C2_UpdateStatusNotFound ==
  [][(/\ returned'
      /\ last'.op = "update"
      /\ Target(last') # None
      /\ Target(last')[1] \notin DOMAIN store)
     => (/\ last'.code = 404
         /\ store' = store
         /\ s3' = s3
         /\ ctx' = ctx)]_vars

\* A status update carrying a milestone hit no project of a non-empty
\* collection.
C2_Witness ==
  /\ returned
  /\ last.op = "update"
  /\ last.code = 404
  /\ Truthy(last.new_milestone)
  /\ DOMAIN store # {}
  /\ Target(last)[1] \notin DOMAIN store

\* C3: when the upload of an upload-image request fails (its await ends and
\* nothing was stored), the request is answered with a server error in that
\* step, the collection is unchanged and the coroutine is gone; no step of a
\* coroutine before its final update changes the collection; and every change
\* of a project's images is the append of the record of a coroutine whose own
\* upload has completed and is in the object store.
C3_UploadFailure ==
  [][/\ \A k \in Slots :
          (ctx[k].pc = "uploading" /\ ctx'[k] # ctx[k] /\ s3' = s3)
          => (/\ returned'
              /\ last'.op = "attach"
              /\ last'.code = 500
              /\ ctx'[k].pc = "idle"
              /\ store' = store)
     /\ \A k \in Slots :
          (ctx'[k] # ctx[k] /\ ctx[k].pc # "pushing") => store' = store
     /\ \A o \in DOMAIN store :
          store'[o].images # store[o].images
          => \E k \in Slots :
               /\ ctx[k].pc = "pushing"
               /\ ctx'[k].pc = "idle"
               /\ ctx[k].oid = o
               /\ ctx[k].image_record.url = ctx[k].image_url
               /\ \E i \in 1 .. Len(s3) : s3[i] = ctx[k].image_url
               /\ store'[o].images = Append(store[o].images, ctx[k].image_record)]_vars

\* An upload failed and its project holds no image.
C3_Witness ==
  /\ returned
  /\ last.op = "attach"
  /\ last.code = 500
  /\ store[Target(last)[1]].images = <<>>
  /\ s3 = <<>>

\* C4: when an upload-image request returns 200 right after another one on
\* the same project did, having started after that one returned (the
\* project it read already ends with the first record), the project's images
\* are the images before the first call, then the first call's record, then
\* the second call's record.
C4_SequentialAttach ==
  [][\A k \in Slots :
       (/\ ctx[k].pc = "pushing"
        /\ ctx'[k].pc = "idle"
        /\ last.op = "attach"
        /\ last.code = 200
        /\ Target(last) = Some(ctx[k].oid)
        /\ ctx[k].project.images = Append(last.before[1].images, last.record[1]))
       => store'[ctx[k].oid].images =
            last.before[1].images \o <<last.record[1], ctx[k].image_record>>]_vars

\* Two requests were served, both uploads to one project: the second read the
\* project with the first one's record in it, and the project now holds both.
C4_Witness ==
  /\ returned
  /\ ops = 2
  /\ last.op = "attach"
  /\ last.code = 200
  /\ Len(last.project[1].images) = 1
  /\ last.before = last.project
  /\ store[Target(last)[1]].images = Append(last.project[1].images, last.record[1])

\* C5, as claimed: for every milestone value a status update carries, a
\* detail fetch that follows the successful update shows milestones equal to
\* those before the update with the value appended.
C5_AnyMilestoneAppended ==
  [][(/\ last.op = "update"
      /\ last.code = 200
      /\ last.new_milestone # None
      /\ returned'
      /\ last'.op = "get"
      /\ Target(last') = Target(last))
     => (/\ last'.code = 200
         /\ last'.body[1].milestones =
              Append(last.before[1].milestones, last.new_milestone[1]))]_vars

\* C5: for every non-empty milestone value a status update carries, a detail
\* fetch that follows the successful update shows milestones equal to those
\* before the update with the value appended as the last element.
C5_MilestoneRoundTrip ==
  [][(/\ last.op = "update"
      /\ last.code = 200
      /\ Truthy(last.new_milestone)
      /\ returned'
      /\ last'.op = "get"
      /\ Target(last') = Target(last))
     => (/\ last'.code = 200
         /\ last'.body[1].milestones =
              Append(last.before[1].milestones, last.new_milestone[1]))]_vars

\* Two requests were served, a status update and then a detail fetch, which
\* shows the update's milestone after the one the project was created with.
C5_Witness ==
  /\ returned
  /\ ops = 2
  /\ last.op = "get"
  /\ last.code = 200
  /\ last.body[1].milestones = Append(DefaultMilestones, "Survey done")

\* The stored documents whose contractor_id is x, as a response shows them.
OfContractor(x) ==
  {Expose(o, store[o]) : o \in {p \in DOMAIN store : store[p].contractor_id = x}}

C7_CreateThenGet ==
  [][(/\ last.op = "create"
      /\ returned'
      /\ last'.op = "get"
      /\ last'.project_id = last.project_id)
     => (/\ last'.code = 200
         /\ last'.body[1].id = last.project_id
         /\ last'.body[1].project_name = last.payload.project_name
         /\ last'.body[1].village_name = last.payload.village_name
         /\ last'.body[1].contractor_id = last.payload.contractor_id
         /\ last'.body[1].status =
              (IF last.payload.status = None THEN "Proposed"
               ELSE last.payload.status[1])
         /\ last'.body[1].milestones =
              (IF last.payload.milestones = None THEN <<"Project Initiated">>
               ELSE last.payload.milestones[1])
         /\ last'.body[1].images = <<>>
         /\ last'.body[1].created_at \in 1 .. now - 1)]_vars

\* Two requests were served, a create and then a detail fetch, which shows
\* the created project: status "Proposed", no images.
C7_Witness ==
  /\ returned
  /\ ops = 2
  /\ last.op = "get"
  /\ last.code = 200
  /\ last.body[1].created_at >= 1
  /\ last.body[1].status = "Proposed"
  /\ last.body[1].images = <<>>

\* C8: in every step every stored project stays stored and its images and
\* its milestones before the step are prefixes of those after it.
C8_AppendOnly ==
  [][\A o \in DOMAIN store :
       /\ o \in DOMAIN store'
       /\ IsPrefix(store[o].images, store'[o].images)
       /\ IsPrefix(store[o].milestones, store'[o].milestones)]_vars

\* A project has had an image and a milestone appended.
C8_Witness ==
  \E o \in DOMAIN store :
    /\ Len(store[o].images) >= 1
    /\ Len(store[o].milestones) >= 2

\* This step is a successful status update of project o.
StatusUpdated(o) ==
  /\ returned'
  /\ last'.op = "update"
  /\ last'.code = 200
  /\ Target(last') = Some(o)

\* C9, as claimed: a successful status update that carries a milestone sets
\* the status and appends the milestone in one step, and no other step
\* changes a project's status or milestones.
C9_AnyMilestoneAtomic ==
  [][\A o \in DOMAIN store :
       /\ (StatusUpdated(o) /\ last'.new_milestone # None)
          => (/\ store'[o].status = last'.status
              /\ store'[o].milestones =
                   Append(store[o].milestones, last'.new_milestone[1]))
       /\ ~StatusUpdated(o)
          => (/\ store'[o].status = store[o].status
              /\ store'[o].milestones = store[o].milestones)]_vars

\* C9: a successful status update sets the status and, when it carries a
\* non-empty milestone, appends it, in one step that leaves the images
\* alone; a status update without a milestone or with an empty one sets only
\* the status; and no other step, whatever requests are in flight, changes a
\* project's status or milestones.
C9_AtomicStatusUpdate ==
  [][\A o \in DOMAIN store :
       /\ StatusUpdated(o)
          => (/\ store'[o].status = last'.status
              /\ store'[o].milestones =
                   (IF Truthy(last'.new_milestone)
                    THEN Append(store[o].milestones, last'.new_milestone[1])
                    ELSE store[o].milestones)
              /\ store'[o].images = store[o].images)
       /\ ~StatusUpdated(o)
          => (/\ store'[o].status = store[o].status
              /\ store'[o].milestones = store[o].milestones)]_vars

\* A status update with a milestone returned while an upload to the same
\* project was in flight, and a later upload step found both in place.
C9_Witness ==
  /\ returned
  /\ last.op = "attach"
  /\ last.code = 200
  /\ last.project[1].status # last.before[1].status
  /\ Len(last.before[1].milestones) = Len(last.project[1].milestones) + 1
  /\ store[Target(last)[1]].status = last.before[1].status
  /\ store[Target(last)[1]].milestones = last.before[1].milestones

\* C10: every image record of every project names the project's
\* contractor_id as its uploader, and every upload in flight past its
\* ownership check still asserts the contractor_id its project stores.
C10_UploaderIsContractor ==
  /\ \A o \in DOMAIN store :
       \A i \in 1 .. Len(store[o].images) :
         store[o].images[i].uploaded_by = store[o].contractor_id
  /\ \A k \in Slots :
       ctx[k].pc \in {"uploading", "pushing"}
       => (/\ ctx[k].oid \in DOMAIN store
           /\ store[ctx[k].oid].contractor_id = ctx[k].contractor_id)

\* An upload's record was appended to a project that other requests changed
\* between the upload's ownership check and its append.
C10_Witness ==
  /\ returned
  /\ last.op = "attach"
  /\ last.code = 200
  /\ last.project # last.before
  /\ store[Target(last)[1]].images[Len(store[Target(last)[1]].images)].uploaded_by
       = store[Target(last)[1]].contractor_id

====
